---- MODULE Spec2Model ----
(***************************************************************************)
(* Skip list map of src/src/skiplist/skiplist.go (int keys, NewIntMap).    *)
(* Nodes live in an arena indexed by small integers; node 0 is the header  *)
(* sentinel, Nil stands for Go's nil.  A node that nothing references any  *)
(* more (list, scratch buffer, cursor) is garbage and holds zero fields.   *)
(* One cursor is open at a time, and the list is only mutated while no     *)
(* cursor is open (the precondition of the iterator family).               *)
(***************************************************************************)
EXTENDS Integers, Sequences, FiniteSets, TLC

\* ---------------------------------------------------------------- bounds
MaxKey == 2
MaxVal == 2
MaxDrawLevel == 1

\* ------------------------------------------------------------- constants
DefaultMaxLevel == 32
Nil == -1
header == 0

Keys == 1..MaxKey
Values == 1..MaxVal
QueryKeys == 1..(MaxKey + 1)
Real == 1..MaxKey
Placeholder == MaxKey + 1
Nodes == 0..(MaxKey + 1)

VARIABLES heap, footer, length, update, it, scan, ret, live, panicked

vars == <<heap, footer, length, update, it, scan, ret, live, panicked>>
listVars == <<heap, footer, length, update>>

\* ------------------------------------------------------------ node graph
ZeroNode == [forward |-> <<>>, backward |-> Nil, key |-> Nil, value |-> Nil]

NoIter == [kind |-> "none", current |-> Nil, key |-> Nil, value |-> Nil,
           upperLimit |-> Nil, lowerLimit |-> Nil]

NoScan == [mode |-> "none", trace |-> <<>>]

Result(op, k, v, ok) == [op |-> op, key |-> k, value |-> v, ok |-> ok]

lessThan(l, r) == l < r

next(n) == IF Len(heap[n].forward) = 0 THEN Nil ELSE heap[n].forward[1]

previous(n) == heap[n].backward

hasNextTop(n) == heap[n].forward[Len(heap[n].forward)] # Nil

hasNext(n) == next(n) # Nil

hasPrevious(n) == previous(n) # Nil

level == Len(heap[header].forward) - 1

maxInt(x, y) == IF x > y THEN x ELSE y

effectiveMaxLevelPlus == maxInt(level, DefaultMaxLevel) + 1

effectiveMaxLevel == maxInt(level, DefaultMaxLevel)

\* The levels randomLevel can return: n successes in a row, at most
\* effectiveMaxLevel of them (at most MaxDrawLevel in this model).
randomLevel == {n \in 0..effectiveMaxLevel : n <= MaxDrawLevel}

\* ---------------------------------------------------------- reachability
Succs(h, n) == {h[n].forward[i] : i \in 1..Len(h[n].forward)} \cup {h[n].backward}

RECURSIVE Reach(_, _)
Reach(h, S) ==
  LET T == S \cup ((UNION {Succs(h, n) : n \in S}) \ {Nil})
  IN IF T = S THEN S ELSE Reach(h, T)

Roots(foot, upd, cur) ==
  ({header, foot, cur} \cup {upd[i] : i \in 1..Len(upd)}) \ {Nil}

Collect(h, foot, upd, cur) ==
  LET R == Reach(h, Roots(foot, upd, cur))
  IN [n \in Nodes |-> IF n \in R THEN h[n] ELSE ZeroNode]

\* &node{...}: a fresh node.  Garbage is collected as soon as it is made, so a
\* slot of the arena is free when it holds the zero node.  The slot of key k
\* is used when it is free, else the lowest free slot; Nil when none is.
Alloc(k) ==
  LET free == {n \in Real : heap[n] = ZeroNode}
  IN IF k \in free THEN k
     ELSE IF free = {} THEN Nil
     ELSE CHOOSE n \in free : \A m \in free : n <= m

\* ----------------------------------------------------------- path search
RECURSIVE walkPastEqual(_, _, _)
walkPastEqual(current, i, k) ==
  LET f == heap[current].forward[i + 1]
  IN IF f # Nil /\ ~lessThan(k, heap[f].key) THEN walkPastEqual(f, i, k) ELSE current

RECURSIVE walk(_, _, _)
walk(current, i, k) ==
  LET f == heap[current].forward[i + 1]
  IN IF f # Nil /\ lessThan(heap[f].key, k) THEN walk(f, i, k) ELSE current

RECURSIVE descend(_, _, _, _)
descend(current, upd, i, k) ==
  IF i < 0 THEN [current |-> current, update |-> upd]
  ELSE \* c, the node the walk of level i stops at, and u, update with slot
       \* i filled, are bound as the elements of one-element sets: each is a
       \* value before the next level is entered, however tall the list is.
       LET below ==
             UNION {{descend(c, u, i - 1, k) :
                       u \in {IF upd = <<>> THEN upd ELSE [upd EXCEPT ![i + 1] = c]}} :
                    c \in {walk(current, i, k)}}
       IN CHOOSE d \in below : TRUE

getPathTop(current, upd, k) ==
  LET top == Len(heap[current].forward) - 1
      c == walk(current, top, k)
  IN [node |-> heap[c].forward[top + 1],
      update |-> descend(current, upd, top, k).update]

\* getPath(current, update, key): the candidate node and the filled path.
getPath(current, upd, k) ==
  LET d == descend(current, upd, Len(heap[current].forward) - 1, k)
  IN [node |-> next(d.current), update |-> d.update]

\* ---------------------------------------------------------------- lookup
Get(k) ==
  LET candidate == getPath(header, <<>>, k).node
  IN IF candidate = Nil \/ heap[candidate].key # k
     THEN Result("Get", Nil, Nil, FALSE)
     ELSE Result("Get", Nil, heap[candidate].value, TRUE)

GetGreaterOrEqual(min) ==
  LET candidate == getPath(header, <<>>, min).node
  IN IF candidate # Nil
     THEN Result("GetGreaterOrEqual", heap[candidate].key, heap[candidate].value, TRUE)
     ELSE Result("GetGreaterOrEqual", Nil, Nil, FALSE)

\* ------------------------------------------------------------- insertion
\* s.update with the local slice written back over its first Len(u) slots.
WriteBack(u) ==
  [i \in 1..Len(update) |-> IF i <= Len(u) THEN u[i] ELSE update[i]]

\* The loop that appends one header entry to update and one nil link to
\* header.forward for each level from i to newLevel.
grow(st, i, newLevel) ==
  LET n == IF i > newLevel THEN 0 ELSE newLevel - i + 1
  IN [update |-> st.update \o [j \in 1..n |-> header],
      hforward |-> st.hforward \o [j \in 1..n |-> Nil]]

OverwriteDropped(h, candidate, v) == h

Overwrite(h, candidate, v) == [h EXCEPT ![candidate].value = v]

SetBackward(h, prev) == IF h[prev].key # Nil THEN prev ELSE Nil

spliceBottom(h, upd, newNode, i, newLevel) ==
  [h EXCEPT ![newNode].forward[1] = h[upd[1]].forward[1],
            ![upd[1]].forward[1] = newNode]

\* The loop that links newNode after update[j] on each level j from i to
\* newLevel: newNode takes over the link of update[j], which then points at
\* newNode (the levels are independent, and newNode is no update[j]).
splice(h, upd, newNode, i, newLevel) ==
  LET linked(j) == j - 1 >= i /\ j - 1 <= newLevel
  IN [n \in DOMAIN h |->
        IF n = newNode
        THEN [h[n] EXCEPT !.forward =
                [j \in 1..Len(h[n].forward) |->
                   IF linked(j) THEN h[upd[j]].forward[j] ELSE h[n].forward[j]]]
        ELSE [h[n] EXCEPT !.forward =
                [j \in 1..Len(h[n].forward) |->
                   IF linked(j) /\ upd[j] = n THEN newNode ELSE h[n].forward[j]]]]

SetLength(n) == n + 1

SetSuccessorKept(h, newNode) == h

SetSuccessor(h, newNode) ==
  LET nx == h[newNode].forward[1]
  IN IF nx # Nil
     THEN (IF h[nx].backward # newNode THEN [h EXCEPT ![nx].backward = newNode] ELSE h)
     ELSE h

SetFooterFirst(h, foot, newNode, k) == IF foot = Nil THEN newNode ELSE foot

SetFooter(h, foot, newNode, k) ==
  IF foot = Nil \/ lessThan(h[foot].key, k) THEN newNode ELSE foot

\* The exact-match test on the candidate of the path search.
MatchesNever(candidate, k) == FALSE

Matches(candidate, k) == candidate # Nil /\ heap[candidate].key = k

\* Set(key, value) with the level of a new node drawn from draws.
Insert(k, v, draws) ==
  /\ ~panicked
  /\ it.kind = "none"
  /\ ret' = Result("Set", Nil, Nil, TRUE)
  /\ live' = IF k = Nil THEN live ELSE [live EXCEPT ![k] = v]
  /\ UNCHANGED <<it, scan>>
  /\ IF k = Nil
     THEN UNCHANGED <<listVars, panicked>>
     ELSE IF level + 1 > Len(update)
     THEN panicked' = TRUE /\ UNCHANGED listVars
     ELSE
       LET path == getPath(header, SubSeq(update, 1, level + 1), k)
           candidate == path.node
       IN IF Matches(candidate, k)
          THEN /\ heap' = Overwrite(heap, candidate, v)
               /\ update' = WriteBack(path.update)
               /\ UNCHANGED <<footer, length, panicked>>
          ELSE \E newLevel \in draws :
                 LET currentLevel == level
                     g == IF newLevel > currentLevel
                          THEN grow([update |-> path.update,
                                     hforward |-> heap[header].forward],
                                    currentLevel + 1, newLevel)
                          ELSE [update |-> path.update,
                                hforward |-> heap[header].forward]
                     newNode == Alloc(k)
                     h0 == [heap EXCEPT ![header].forward = g.hforward]
                     h1 == [h0 EXCEPT ![newNode] =
                              [forward |-> [i \in 1..(newLevel + 1) |-> Nil],
                               backward |-> SetBackward(h0, g.update[1]),
                               key |-> k, value |-> v]]
                     h2 == splice(h1, g.update, newNode, 0, newLevel)
                     h3 == SetSuccessor(h2, newNode)
                 IN /\ newNode # Nil
                    /\ heap' = h3
                    /\ length' = SetLength(length)
                    /\ footer' = SetFooter(h3, footer, newNode, k)
                    /\ update' = WriteBack(g.update)
                    /\ UNCHANGED panicked

Set(k, v) == Insert(k, v, randomLevel)

\* Set with the two extreme draws: the loop of randomLevel stops at once
\* (n = 0) or runs to its limit (n = effectiveMaxLevel).
SetAnyLevel(k, v) ==
  Insert(k, v, {n \in 0..effectiveMaxLevel : n = 0 \/ n = effectiveMaxLevel})

\* -------------------------------------------------------------- deletion
DeleteFooterKept(foot, candidate, prev) == foot

DeleteFooter(foot, candidate, prev) == IF foot = candidate THEN prev ELSE foot

DeleteSuccessorKept(h, candidate, prev) == h

DeleteSuccessor(h, candidate, prev) ==
  LET nx == IF Len(h[candidate].forward) = 0 THEN Nil ELSE h[candidate].forward[1]
  IN IF nx # Nil THEN [h EXCEPT ![nx].backward = prev] ELSE h

RECURSIVE unspliceBelowTop(_, _, _, _)
unspliceBelowTop(h, upd, candidate, i) ==
  IF i < Len(h[header].forward) - 1 /\ h[upd[i + 1]].forward[i + 1] = candidate
  THEN unspliceBelowTop([h EXCEPT ![upd[i + 1]].forward[i + 1] = h[candidate].forward[i + 1]],
                        upd, candidate, i + 1)
  ELSE h

RECURSIVE unsplice(_, _, _, _)
unsplice(h, upd, candidate, i) ==
  IF i <= Len(h[header].forward) - 1 /\ h[upd[i + 1]].forward[i + 1] = candidate
  THEN unsplice([h EXCEPT ![upd[i + 1]].forward[i + 1] = h[candidate].forward[i + 1]],
                upd, candidate, i + 1)
  ELSE h

shrinkNever(h) == h

RECURSIVE shrink(_)
shrink(h) ==
  LET lv == Len(h[header].forward) - 1
  IN IF lv > 0 /\ h[header].forward[lv + 1] = Nil
     THEN shrink([h EXCEPT ![header].forward = SubSeq(h[header].forward, 1, lv)])
     ELSE h

DeleteLengthKept(n) == n

DeleteLength(n) == n - 1

FoundAny(candidate, k) == candidate # Nil

Found(candidate, k) == ~(candidate = Nil \/ heap[candidate].key # k)

Delete(k) ==
  /\ ~panicked
  /\ it.kind = "none"
  /\ live' = IF k = Nil THEN live ELSE [live EXCEPT ![k] = Nil]
  /\ UNCHANGED <<it, scan>>
  /\ IF k = Nil
     THEN /\ ret' = Result("Delete", Nil, Nil, FALSE)
          /\ UNCHANGED <<listVars, panicked>>
     ELSE IF level + 1 > Len(update)
     THEN panicked' = TRUE /\ ret' = ret /\ UNCHANGED listVars
     ELSE
       LET path == getPath(header, SubSeq(update, 1, level + 1), k)
           candidate == path.node
           upd == WriteBack(path.update)
       IN IF ~Found(candidate, k)
          THEN /\ ret' = Result("Delete", Nil, Nil, FALSE)
               /\ update' = upd
               /\ UNCHANGED <<heap, footer, length, panicked>>
          ELSE LET prev == heap[candidate].backward
                   foot == DeleteFooter(footer, candidate, prev)
                   h1 == DeleteSuccessor(heap, candidate, prev)
                   h2 == unsplice(h1, path.update, candidate, 0)
                   h3 == shrink(h2)
               IN /\ ret' = Result("Delete", Nil, heap[candidate].value, TRUE)
                  /\ footer' = foot
                  /\ length' = DeleteLength(length)
                  /\ update' = upd
                  /\ heap' = Collect(h3, foot, upd, Nil)
                  /\ UNCHANGED panicked

\* ------------------------------------------------------ read operations
GetOp(k) ==
  /\ ~panicked /\ it.kind = "none"
  /\ ret' = Get(k)
  /\ UNCHANGED <<listVars, it, scan, live, panicked>>

GetGreaterOrEqualOp(k) ==
  /\ ~panicked /\ it.kind = "none"
  /\ ret' = GetGreaterOrEqual(k)
  /\ UNCHANGED <<listVars, it, scan, live, panicked>>


\* --------------------------------------------------------------- cursors
Cursor(kind, current, from, to) ==
  [kind |-> kind, current |-> current,
   key |-> heap[current].key, value |-> heap[current].value,
   upperLimit |-> to, lowerLimit |-> from]

MoveToStale(current) == [it EXCEPT !.current = current]

MoveTo(current) ==
  [it EXCEPT !.current = current, !.key = heap[current].key,
             !.value = heap[current].value]

Entry(c) == <<c.key, c.value>>

\* scan is the record a client keeps of one straight traversal: the entries
\* reported so far by a cursor that has only been stepped one way.
Step(mode, ok) ==
  IF scan.mode = mode
  THEN (IF ok THEN [scan EXCEPT !.trace = Append(@, Entry(it'))] ELSE scan)
  ELSE [mode |-> "mixed", trace |-> <<>>]

Open(kind) == ~panicked /\ it.kind = kind

Iterator ==
  /\ Open("none")
  /\ it' = Cursor("plain", header, Nil, Nil)
  /\ scan' = [mode |-> "fwd", trace |-> <<>>]
  /\ ret' = Result("Iterator", Nil, Nil, TRUE)
  /\ UNCHANGED <<listVars, live, panicked>>

Seek(k) ==
  LET current == getPath(header, <<>>, k).node
  IN /\ Open("none")
     /\ IF current = Nil
        THEN /\ ret' = Result("Seek", Nil, Nil, FALSE)
             /\ UNCHANGED <<it, scan>>
        ELSE /\ it' = Cursor("plain", current, Nil, Nil)
             /\ scan' = [mode |-> "mixed", trace |-> <<>>]
             /\ ret' = Result("Seek", Nil, Nil, TRUE)
     /\ UNCHANGED <<listVars, live, panicked>>

SeekToFirst ==
  /\ Open("none")
  /\ IF length = 0
     THEN /\ ret' = Result("SeekToFirst", Nil, Nil, FALSE)
          /\ UNCHANGED <<it, scan>>
     ELSE /\ it' = Cursor("plain", next(header), Nil, Nil)
          /\ scan' = [mode |-> "mixed", trace |-> <<>>]
          /\ ret' = Result("SeekToFirst", Nil, Nil, TRUE)
  /\ UNCHANGED <<listVars, live, panicked>>

SeekToLast ==
  /\ Open("none")
  /\ IF footer = Nil
     THEN /\ ret' = Result("SeekToLast", Nil, Nil, FALSE)
          /\ UNCHANGED <<it, scan>>
     ELSE /\ it' = Cursor("plain", footer, Nil, Nil)
          /\ scan' = [mode |-> "bwd", trace |-> <<Entry(it')>>]
          /\ ret' = Result("SeekToLast", Nil, Nil, TRUE)
  /\ UNCHANGED <<listVars, live, panicked>>

Range(from, to) ==
  LET start == getPath(header, <<>>, from).node
  IN /\ Open("none")
     /\ heap' = [heap EXCEPT ![Placeholder] =
                   [forward |-> <<start>>, backward |-> start,
                    key |-> Nil, value |-> Nil]]
     /\ it' = [kind |-> "range", current |-> Placeholder, key |-> Nil,
               value |-> Nil, upperLimit |-> to, lowerLimit |-> from]
     /\ scan' = [mode |-> "rng", trace |-> <<>>]
     /\ ret' = Result("Range", Nil, Nil, TRUE)
     /\ UNCHANGED <<footer, length, update, live, panicked>>

\* A cursor operation leaves the list alone; the placeholder node of a range
\* cursor becomes garbage once the cursor has moved off it.
Moved(op, ok, mode) ==
  /\ ret' = Result(op, Nil, Nil, ok)
  /\ scan' = Step(mode, ok)
  /\ heap' = IF it'.current = it.current THEN heap
             ELSE Collect(heap, footer, update, it'.current)
  /\ UNCHANGED <<footer, length, update, live, panicked>>

iterNext ==
  /\ Open("plain")
  /\ IF ~hasNext(it.current)
     THEN it' = it /\ Moved("Next", FALSE, "fwd")
     ELSE it' = MoveTo(next(it.current)) /\ Moved("Next", TRUE, "fwd")

iterPrevious ==
  /\ Open("plain")
  /\ IF ~hasPrevious(it.current)
     THEN it' = it /\ Moved("Previous", FALSE, "bwd")
     ELSE it' = MoveTo(previous(it.current)) /\ Moved("Previous", TRUE, "bwd")

SeekStartNoBackUp(k) ==
  LET c1 == IF it.current = Nil THEN header ELSE it.current
  IN IF heap[c1].key # Nil /\ lessThan(k, heap[c1].key) THEN header ELSE c1

\* iter.Seek up to the call of getPath: the node the search resumes from.
SeekStart(k) ==
  LET c1 == IF it.current = Nil THEN header ELSE it.current
      c2 == IF heap[c1].key # Nil /\ lessThan(k, heap[c1].key) THEN header ELSE c1
  IN IF heap[c2].backward = Nil THEN header ELSE heap[c2].backward

SeekFrom(k) == getPath(SeekStart(k), <<>>, k).node

iterSeekBody(k) ==
  LET current == SeekFrom(k)
  IN IF current = Nil
     THEN it' = it /\ Moved("Seek", FALSE, "seek")
     ELSE it' = MoveTo(current) /\ Moved("Seek", TRUE, "seek")

iterSeek(k) == Open("plain") /\ iterSeekBody(k)

RangeNextStopsAfter(nx) == lessThan(it.upperLimit, heap[nx].key)

RangeNextStops(nx) == ~lessThan(heap[nx].key, it.upperLimit)

rangeNext ==
  /\ Open("range")
  /\ IF ~hasNext(it.current)
     THEN it' = it /\ Moved("Next", FALSE, "rng")
     ELSE IF RangeNextStops(next(it.current))
     THEN it' = it /\ Moved("Next", FALSE, "rng")
     ELSE it' = MoveTo(next(it.current)) /\ Moved("Next", TRUE, "rng")

RangePreviousStops(pv) == lessThan(heap[pv].key, it.lowerLimit)

rangePrevious ==
  /\ Open("range")
  /\ IF ~hasPrevious(it.current)
     THEN it' = it /\ Moved("Previous", FALSE, "bwd")
     ELSE IF RangePreviousStops(previous(it.current))
     THEN it' = it /\ Moved("Previous", FALSE, "bwd")
     ELSE it' = MoveTo(previous(it.current)) /\ Moved("Previous", TRUE, "bwd")

RangeSeekRejects(k) ==
  lessThan(k, it.lowerLimit) \/ ~lessThan(k, it.upperLimit)

rangeSeek(k) ==
  /\ Open("range")
  /\ IF RangeSeekRejects(k)
     THEN it' = it /\ Moved("Seek", FALSE, "seek")
     ELSE iterSeekBody(k)

Close ==
  /\ ~panicked
  /\ it.kind # "none"
  /\ it' = NoIter
  /\ scan' = NoScan
  /\ ret' = Result("Close", Nil, Nil, TRUE)
  /\ heap' = Collect(heap, footer, update, Nil)
  /\ UNCHANGED <<footer, length, update, live, panicked>>

\* ---------------------------------------------------------- construction
Init ==
  /\ heap = [n \in Nodes |-> IF n = header
                               THEN [ZeroNode EXCEPT !.forward = <<Nil>>]
                               ELSE ZeroNode]
  /\ footer = Nil
  /\ length = 0
  /\ update = [i \in 1..(DefaultMaxLevel + 1) |-> Nil]
  /\ it = NoIter
  /\ scan = NoScan
  /\ ret = Result("NewIntMap", Nil, Nil, TRUE)
  /\ live = [k \in Keys |-> Nil]
  /\ panicked = FALSE

Mutate ==
  \/ \E k \in Keys \cup {Nil}, v \in Values : Set(k, v)
  \/ \E k \in Keys \cup {Nil} : Delete(k)

\* The list under Set and Delete alone.
SpecMutate == Init /\ [][Mutate]_vars

\* The list under Set and Delete when a draw is 0 or effectiveMaxLevel.
MutateAnyLevel ==
  \/ \E k \in Keys \cup {Nil}, v \in Values : SetAnyLevel(k, v)
  \/ \E k \in Keys \cup {Nil} : Delete(k)

SpecLevels == Init /\ [][MutateAnyLevel]_vars

\* The list with its read operations.
Next ==
  \/ Mutate
  \/ \E k \in QueryKeys : GetOp(k)
  \/ \E k \in QueryKeys : GetGreaterOrEqualOp(k)
  \/ \E k \in QueryKeys : Seek(k)
  \/ Close

Spec == Init /\ [][Next]_vars

\* The list with one plain cursor at a time.
NextIter ==
  \/ Mutate
  \/ Iterator
  \/ \E k \in QueryKeys : Seek(k)
  \/ SeekToFirst
  \/ SeekToLast
  \/ iterNext
  \/ iterPrevious
  \/ \E k \in QueryKeys : iterSeek(k)
  \/ Close

SpecIter == Init /\ [][NextIter]_vars

\* The list with one range cursor at a time.
NextRange ==
  \/ Mutate
  \/ \E from \in QueryKeys, to \in QueryKeys : Range(from, to)
  \/ rangeNext
  \/ rangePrevious
  \/ \E k \in QueryKeys : rangeSeek(k)
  \/ Close

SpecRange == Init /\ [][NextRange]_vars

\* The list with one cursor at a time, plain or range, and its three moves.
NextCursor ==
  \/ Mutate
  \/ Iterator
  \/ \E from \in QueryKeys, to \in QueryKeys : Range(from, to)
  \/ iterNext
  \/ iterPrevious
  \/ \E k \in QueryKeys : iterSeek(k)
  \/ rangeNext
  \/ rangePrevious
  \/ \E k \in QueryKeys : rangeSeek(k)
  \/ Close

SpecCursor == Init /\ [][NextCursor]_vars


\* ------------------------------------------------------------ properties
\* What the calls made so far require: live[k] is the value of the latest
\* Set(k, v) that no later Delete(k) followed, Nil when there is none.
LiveKeys == {k \in Keys : live[k] # Nil}

RECURSIVE Ascending(_)
Ascending(S) ==
  IF S = {} THEN <<>>
  ELSE LET m == CHOOSE x \in S : \A y \in S : x <= y
       IN <<m>> \o Ascending(S \ {m})

EntriesOf(S) == LET ks == Ascending(S) IN [i \in 1..Len(ks) |-> <<ks[i], live[ks[i]]>>]

LiveEntries == EntriesOf(LiveKeys)

Reverse(sq) == [i \in 1..Len(sq) |-> sq[Len(sq) + 1 - i]]

IsPrefix(p, sq) == Len(p) <= Len(sq) /\ p = SubSeq(sq, 1, Len(p))

\* The nodes met by following forward[i] from node n (at most fuel of them).
RECURSIVE Chain(_, _, _)
Chain(n, i, fuel) ==
  LET f == IF Len(heap[n].forward) > i THEN heap[n].forward[i + 1] ELSE Nil
  IN IF f = Nil \/ fuel = 0 THEN <<>> ELSE <<f>> \o Chain(f, i, fuel - 1)

Ceiling(q) == {k \in LiveKeys : k >= q /\ \A j \in LiveKeys : j >= q => k <= j}

NotFound(op) == Result(op, Nil, Nil, FALSE)

\* C1: after any Set/Delete sequence Get(k) returns (v, true) for the value
\* v of the latest Set(k, v) not followed by Delete(k), and (nil, false) for
\* every key never set or last deleted.
C1_GetLatest ==
  \A k \in QueryKeys :
    Get(k) = IF k \in LiveKeys THEN Result("Get", Nil, live[k], TRUE)
             ELSE NotFound("Get")

C1_Witness ==
  /\ ret.op = "Get" /\ ret.ok /\ ret.value = MaxVal
  /\ level > 0 /\ length >= 1 /\ LiveKeys # Keys

\* C2: Len() is the number of distinct live keys, which is the number of
\* nodes on the level-0 chain from the header, and is never negative.
C2_LenCountsLive ==
  /\ length = Cardinality(LiveKeys)
  /\ length = Len(Chain(header, 0, MaxKey + 2))
  /\ length >= 0

C2_Witness == ret.op = "Delete" /\ ret.ok /\ length >= 1 /\ level > 0

\* C3: a cursor from Iterator() stepped with Next() until it returns false
\* reports every live key once, in strictly increasing order, with its
\* stored value, in exactly Len() successful steps.
C3_ForwardScan ==
  (it.kind = "plain" /\ scan.mode = "fwd") =>
     /\ IsPrefix(scan.trace, LiveEntries)
     /\ (ret.op = "Next" /\ ~ret.ok) =>
           (scan.trace = LiveEntries /\ Len(scan.trace) = length)

C3_Witness ==
  /\ it.kind = "plain" /\ scan.mode = "fwd" /\ ret.op = "Next" /\ ~ret.ok
  /\ Len(scan.trace) >= 2 /\ level > 0

\* C4: on a non-empty list the key of the SeekToLast() cursor followed by the
\* keys reported by Previous() until it returns false is the reverse of the
\* forward sequence: Len() keys, strictly decreasing, ending at the minimum.
C4_BackwardScan ==
  (it.kind = "plain" /\ scan.mode = "bwd") =>
     /\ IsPrefix(scan.trace, Reverse(LiveEntries))
     /\ (ret.op = "Previous" /\ ~ret.ok) =>
           (scan.trace = Reverse(LiveEntries) /\ Len(scan.trace) = length)

C4_Witness ==
  /\ it.kind = "plain" /\ scan.mode = "bwd" /\ ret.op = "Previous" /\ ~ret.ok
  /\ Len(scan.trace) >= 2 /\ level > 0

InRange(k) == it.lowerLimit <= k /\ k < it.upperLimit

\* C5: a cursor from Range(from, to) stepped with Next() until it returns
\* false reports exactly the live keys k with from <= k < to, each once, in
\* increasing order, and nothing when no live key lies in the interval.
C5_RangeScan ==
  (it.kind = "range" /\ scan.mode = "rng") =>
     LET E == EntriesOf({k \in LiveKeys : InRange(k)})
     IN /\ IsPrefix(scan.trace, E)
        /\ (ret.op = "Next" /\ ~ret.ok) => scan.trace = E

C5_Witness ==
  /\ it.kind = "range" /\ scan.mode = "rng" /\ ret.op = "Next" /\ ~ret.ok
  /\ Len(scan.trace) >= 1
  /\ \E k \in LiveKeys : ~InRange(k)

\* C6: whenever Next, Previous or Seek on a range cursor returns true, the
\* cursor's current key k satisfies from <= k < to.
C6_RangeRestricted ==
  (it.kind = "range" /\ ret.op \in {"Next", "Previous", "Seek"} /\ ret.ok)
     => InRange(it.key)

\* C7: GetGreaterOrEqual(q) and SkipList.Seek(q) locate the live entry with
\* the smallest key >= q, and report not-found / a nil cursor exactly when
\* no live key is >= q.
C7_Found(q) ==
  IF Ceiling(q) = {} THEN NotFound("GetGreaterOrEqual")
  ELSE LET c == CHOOSE k \in Ceiling(q) : TRUE
       IN Result("GetGreaterOrEqual", c, live[c], TRUE)

C7_LowerBound ==
  [][ \A q \in QueryKeys :
        /\ (ret'.op = "GetGreaterOrEqual" /\ GetGreaterOrEqualOp(q))
             => ret' = C7_Found(q)
        /\ (ret'.op = "Seek" /\ Seek(q)) =>
             /\ ret'.ok = (Ceiling(q) # {})
             /\ ret'.ok => /\ it'.kind = "plain"
                           /\ it'.key \in Ceiling(q)
                           /\ it'.value = live[it'.key]
                           /\ heap[it'.current].key = it'.key
             /\ ~ret'.ok => it'.kind = "none" ]_vars

C7_Witness ==
  /\ ret.op = "Seek" /\ ret.ok /\ it.kind = "plain"
  /\ \E k \in LiveKeys : k < it.key
  /\ level > 0

\* C8: Seek(key) on a range cursor in any position, a fresh one included,
\* with from <= key < to returns true and lands on the live entry with the
\* smallest key >= key when there is one, and returns false only when there
\* is none; with key outside [from, to) it returns false.
C8_RangeSeek ==
  [][ \A q \in QueryKeys :
        (ret'.op = "Seek" /\ rangeSeek(q)) =>
          IF InRange(q)
          THEN /\ ret'.ok = (Ceiling(q) # {})
               /\ ret'.ok => it'.key \in Ceiling(q)
          ELSE ~ret'.ok ]_vars

\* C9: Delete(k) of a live key k with value v returns (v, true); afterwards
\* Get(k) is not-found, Len() is one less, and every other key is as before.
C9_DeleteLive ==
  [][ \A k \in Keys :
        (ret'.op = "Delete" /\ live[k] # Nil /\ live'[k] = Nil /\ Delete(k)) =>
          /\ ret' = Result("Delete", Nil, live[k], TRUE)
          /\ Get(k)' = NotFound("Get")
          /\ length' = length - 1
          /\ \A j \in Keys \ {k} : Get(j)' = Get(j) ]_vars

C9_Witness ==
  /\ ret.op = "Delete" /\ ret.ok /\ ret.value = MaxVal
  /\ length >= 1 /\ level > 0

\* C10: Delete(k) with k nil or not live returns (nil, false) and leaves
\* Len(), the header's forward sequence, every node's links and value and
\* the footer unchanged.
C10_DeleteAbsent ==
  [][ \A k \in Keys \cup {Nil} :
        (ret'.op = "Delete" /\ (k = Nil \/ live[k] = Nil) /\ Delete(k)) =>
          /\ ret' = NotFound("Delete")
          /\ UNCHANGED <<heap, footer, length>> ]_vars

C10_Witness ==
  /\ ret.op = "Delete" /\ ~ret.ok /\ length >= 1 /\ level > 0

\* The node that holds key k (Nil when k is not in the list).
NodeOf(k) ==
  IF \E n \in Real : heap[n].key = k
  THEN CHOOSE n \in Real : heap[n].key = k
  ELSE Nil

\* C11: Set(k, v) on a key k that is already live overwrites the value in
\* place and changes nothing else: no node is created, Len(), the level
\* count, every forward and backward link and the footer are unchanged; so a
\* Set(k, v) that repeats the latest Set(k, v) leaves the list as it was.
C11_OverwriteInPlace ==
  [][ \A k \in Keys, v \in Values :
        (ret'.op = "Set" /\ live[k] # Nil /\ live'[k] = v /\ Set(k, v)) =>
          /\ heap' = [n \in Nodes |->
                        IF heap[n].key = k THEN [heap[n] EXCEPT !.value = v]
                        ELSE heap[n]]
          /\ Len(heap'[header].forward) = Len(heap[header].forward)
          /\ UNCHANGED <<footer, length>>
          /\ live[k] = v => UNCHANGED <<heap, footer, length>> ]_vars

\* Every key is live, the last call was a Set, and the scratch buffer holds
\* the path to the greatest key, whose value is MaxVal: the state a Set of
\* that key with MaxVal leaves when the key was live with another value.
C11_Witness ==
  /\ ret.op = "Set" /\ length = MaxKey /\ level > 0
  /\ live[MaxKey] = MaxVal
  /\ update[1] # Nil /\ update[1] # header
  /\ heap[update[1]].forward[1] = NodeOf(MaxKey)

Least(S) == CHOOSE x \in S : \A y \in S : x <= y

Greatest(S) == CHOOSE x \in S : \A y \in S : x >= y

\* The cursor a SeekTo call has just returned stands on live key k.
CursorOn(k) ==
  /\ it.kind = "plain"
  /\ it.key = k /\ it.value = live[k]
  /\ it.current = NodeOf(k)

\* C12: SeekToFirst() and SeekToLast() return nil on an empty list and a
\* cursor on the minimum / maximum live key otherwise; footer is nil iff
\* Len() = 0 iff header.forward[0] is nil, and otherwise footer is the last
\* node of the level-0 chain, the node of the greatest live key.
C12_FirstAndLast ==
  /\ (footer = Nil) <=> (length = 0)
  /\ (length = 0) <=> (next(header) = Nil)
  /\ (length = 0) <=> (LiveKeys = {})
  /\ footer # Nil =>
       LET c == Chain(header, 0, MaxKey + 2)
       IN /\ Len(c) >= 1 /\ footer = c[Len(c)]
          /\ heap[footer].key = Greatest(LiveKeys)
  /\ ret.op = "SeekToFirst" =>
       /\ ret.ok <=> LiveKeys # {}
       /\ ret.ok => CursorOn(Least(LiveKeys))
       /\ ~ret.ok => it = NoIter
  /\ ret.op = "SeekToLast" =>
       /\ ret.ok <=> LiveKeys # {}
       /\ ret.ok => CursorOn(Greatest(LiveKeys))
       /\ ~ret.ok => it = NoIter

C12_Witness ==
  /\ ret.op = "SeekToLast" /\ ret.ok
  /\ length = MaxKey /\ level > 0
  /\ it.key = MaxKey /\ next(header) # footer

\* C13: on a plain cursor in any position, cursor.Seek(key) returns true
\* exactly when SkipList.Seek(key), which searches from the header, returns
\* a cursor, and then stands on the entry that cursor would stand on.
C13_SeekResumes ==
  [][ \A q \in QueryKeys :
        (ret'.op = "Seek" /\ it.kind = "plain" /\ iterSeek(q)) =>
          LET fromHeader == getPath(header, <<>>, q).node
          IN /\ ret'.ok <=> fromHeader # Nil
             /\ ret'.ok => it' = Cursor("plain", fromHeader, Nil, Nil) ]_vars

\* cursor.Seek has just failed on a plain cursor that stands on a node with a
\* predecessor, so the search resumed from that predecessor, not the header
\* (a failed SkipList.Seek leaves no cursor).
C13_Witness ==
  /\ ret.op = "Seek" /\ ~ret.ok
  /\ it.kind = "plain" /\ it.current # header
  /\ hasPrevious(it.current) /\ level > 0

Height(n) == Len(heap[n].forward)

\* The nodes that hold an entry of the list.
LiveNodes == {n \in Real : heap[n].key # Nil}

SeqSet(sq) == {sq[i] : i \in 1..Len(sq)}

\* C14: for every level i from 0 to level(), the chain that follows
\* forward[i] from the header is finite, strictly increasing in key, and
\* consists of exactly the live nodes whose forward sequence has more than i
\* entries; each chain lies within the chain one level below, and the level-0
\* chain holds every live key.
C14_LevelChains ==
  /\ Cardinality(LiveNodes) = Cardinality(LiveKeys)
  /\ \A i \in 0..level :
       LET c == Chain(header, i, MaxKey + 2)
       IN /\ Len(c) <= MaxKey
          /\ \A j \in 1..(Len(c) - 1) : heap[c[j]].key < heap[c[j + 1]].key
          /\ SeqSet(c) = {n \in LiveNodes : Height(n) > i}
          /\ i = 0 => {heap[n].key : n \in SeqSet(c)} = LiveKeys
          /\ i > 0 => SeqSet(c) \subseteq SeqSet(Chain(header, i - 1, MaxKey + 2))

\* Every key is live and the top chain skips the first node of the level-0
\* chain.
C14_Witness ==
  /\ length = MaxKey /\ level > 0
  /\ \E a \in LiveNodes, b \in LiveNodes :
        /\ Height(a) < Height(b) /\ heap[a].key < heap[b].key
        /\ heap[header].forward[level + 1] = b /\ next(header) = a

\* C15: every live node's backward link is its immediate level-0
\* predecessor among live nodes, nil exactly for the node of the minimum key
\* and never the header; for live nodes a, b: a.forward[0] = b iff
\* b.backward = a.
C15_BackwardLinks ==
  LET c == Chain(header, 0, MaxKey + 2)
  IN /\ \A j \in 1..Len(c) :
          heap[c[j]].backward = IF j = 1 THEN Nil ELSE c[j - 1]
     /\ \A b \in LiveNodes :
          /\ heap[b].backward # header
          /\ heap[b].backward = Nil <=> heap[b].key = Least(LiveKeys)
     /\ \A a \in LiveNodes, b \in LiveNodes :
          heap[a].forward[1] = b <=> heap[b].backward = a

\* The first node of a longer list has been deleted, and the backward link
\* of its successor, now the first node, has been reset.
C15_Witness ==
  /\ ret.op = "Delete" /\ ret.ok /\ length >= 1
  /\ Least(LiveKeys) > 1
  /\ heap[next(header)].backward = Nil

\* C16: after a successful Delete(k) the removed node is referenced by
\* nothing the list owns: it is not reachable from the header at any level,
\* no node's forward[i] or backward link points to it, the footer is not it,
\* and no slot of the scratch buffer holds it.
C16_RemovedUnreferenced ==
  [][ \A k \in Keys :
        (ret'.op = "Delete" /\ live[k] # Nil /\ live'[k] = Nil /\ Delete(k)) =>
          LET removed == NodeOf(k)
          IN /\ removed # Nil
             /\ removed \notin Reach(heap', {header})
             /\ \A n \in Nodes : removed \notin Succs(heap', n)
             /\ footer' # removed
             /\ \A i \in 1..Len(update') : update'[i] # removed
             /\ heap'[removed] = ZeroNode ]_vars

\* A node has been deleted from between the header and a node that stays, in
\* a list with more than one level.
C16_Witness ==
  /\ ret.op = "Delete" /\ ret.ok
  /\ length >= 1 /\ level > 0
  /\ \E n \in Real : heap[n] = ZeroNode /\ n < heap[footer].key
  /\ update[1] = header /\ update[2] = header

\* C17: the header's forward sequence has at least one entry and no empty
\* top level: level() = 0 or header.forward[level()] is non-nil, so level()
\* is the greatest level among live nodes, 0 for an empty list.
C17_NoEmptyTopLevel ==
  /\ Len(heap[header].forward) >= 1
  /\ level >= 0
  /\ level = 0 \/ heap[header].forward[level + 1] # Nil
  /\ level = Greatest({Height(n) - 1 : n \in LiveNodes} \cup {0})

\* The list had more than one level once (the second slot of the scratch
\* buffer was filled), and a deletion has left it non-empty with one level.
C17_Witness ==
  /\ ret.op = "Delete" /\ ret.ok
  /\ level = 0 /\ length >= 1
  /\ update[2] # Nil

\* C18: level() never exceeds DefaultMaxLevel, so effectiveMaxLevel() is
\* DefaultMaxLevel and the scratch buffer of DefaultMaxLevel + 1 slots is
\* large enough: slicing it to level() + 1 and indexing it up to a new
\* node's level never go out of bounds in Set or Delete.
C18_LevelBounded ==
  /\ ~panicked
  /\ level <= DefaultMaxLevel
  /\ maxInt(level, DefaultMaxLevel) = DefaultMaxLevel
  /\ Len(update) = DefaultMaxLevel + 1
  /\ level + 1 <= Len(update)
  /\ \A n \in LiveNodes : Height(n) <= Len(update)

\* A key has been deleted from a list whose level is DefaultMaxLevel: the
\* call sliced the whole scratch buffer and filled its last slot.
C18_Witness ==
  /\ ret.op = "Delete" /\ ret.ok
  /\ level = DefaultMaxLevel /\ length >= 1
  /\ update[DefaultMaxLevel + 1] = header

\* C19: when Next, Previous or Seek of a plain or range cursor returns
\* false, the cursor's current node and its cached key and value are what
\* they were before the call; when one returns true, Key() and Value() are
\* the key and value of the node the cursor is now on.
C19_CursorFrame ==
  [][ (ret'.op \in {"Next", "Previous", "Seek"} /\ it.kind \in {"plain", "range"}) =>
        /\ ~ret'.ok => it' = it
        /\ ret'.ok => /\ it'.current \in Nodes
                      /\ it'.key = heap'[it'.current].key
                      /\ it'.value = heap'[it'.current].value
                      /\ it'.kind = it.kind
                      /\ it'.lowerLimit = it.lowerLimit
                      /\ it'.upperLimit = it.upperLimit ]_vars

\* Next has been refused by the upper limit of a range cursor that stands on
\* an entry with a successor: the cursor still holds that entry.
C19_Witness ==
  /\ it.kind = "range" /\ ret.op = "Next" /\ ~ret.ok
  /\ it.current # Placeholder /\ hasNext(it.current)
  /\ it.key = heap[it.current].key /\ it.value = live[it.key]

\* The nodes met by following backward from node n, n first.
RECURSIVE BackChain(_, _)
BackChain(n, fuel) ==
  IF n = Nil \/ fuel = 0 THEN <<>>
  ELSE <<n>> \o BackChain(heap[n].backward, fuel - 1)

EntriesAt(c) == [j \in 1..Len(c) |-> <<heap[c[j]].key, heap[c[j]].value>>]

\* What a client can observe of the list: Len(), every Get and
\* GetGreaterOrEqual, and the forward and backward iteration sequences.
Observed ==
  [len |-> length,
   get |-> [k \in QueryKeys |-> Get(k)],
   ceiling |-> [q \in QueryKeys |-> GetGreaterOrEqual(q)],
   forward |-> EntriesAt(Chain(header, 0, MaxKey + 2)),
   backward |-> EntriesAt(BackChain(footer, MaxKey + 2))]

\* The same observations computed from the record of the Set and Delete
\* calls alone, which no level draw enters.
Determined ==
  [len |-> Cardinality(LiveKeys),
   get |-> [k \in QueryKeys |->
              IF k \in LiveKeys THEN Result("Get", Nil, live[k], TRUE)
              ELSE NotFound("Get")],
   ceiling |-> [q \in QueryKeys |-> C7_Found(q)],
   forward |-> LiveEntries,
   backward |-> Reverse(LiveEntries)]

\* C20: observable results do not depend on the random levels: after the
\* same sequence of Set and Delete calls, whatever levels were drawn, every
\* Delete of the sequence has returned the same result and Len(), every Get
\* and GetGreaterOrEqual and both iteration sequences are the same.  The
\* calls alone fix live, so it is enough that each result of Delete is a
\* function of live before the call and each observation a function of live
\* (the observation is taken in the state a step starts from, and a Set with
\* another value starts a step in every state).
C20_LevelIndependent ==
  [][ /\ Observed = Determined
      /\ \A k \in Keys \cup {Nil} :
           (ret'.op = "Delete" /\ Delete(k)) =>
             ret' = IF k # Nil /\ live[k] # Nil
                    THEN Result("Delete", Nil, live[k], TRUE)
                    ELSE NotFound("Delete") ]_vars

\* Every key is live in a list whose nodes drew different levels, the first
\* node the higher one.
C20_Witness ==
  /\ length = MaxKey /\ level > 0
  /\ \E a \in LiveNodes, b \in LiveNodes :
        /\ Height(a) > Height(b) /\ heap[a].key < heap[b].key
        /\ next(header) = a /\ footer = b

====
